---- MODULE Spec2Model ----
(***************************************************************************)
(* Unified merge view of codemirror-merge (src/src/unified.ts).            *)
(*                                                                         *)
(* A document is a sequence of one-character strings; "\n" is the line     *)
(* break.  Positions are 0-based offsets as in @codemirror/state, so the   *)
(* character at offset p of d is d[p + 1].                                 *)
(*                                                                         *)
(* The state is the editor state of one view: the originalDoc field (A),   *)
(* the editor document (B), the ChunkField, and the two branches of the    *)
(* undo history.  Every command of unified.ts is one action that dispatches*)
(* one transaction; Dispatch applies the whole transaction: document       *)
(* change, originalDoc.update, the computeChunks reducer and the history   *)
(* field.                                                                  *)
(***************************************************************************)
EXTENDS Integers, Sequences, FiniteSets, TLC

\* Bounds of the model.
MaxLines == 5      \* lines of the two initial documents together
MaxSteps == 3      \* dispatched transactions in one run
MaxInputs == 1     \* of them bring new text (edit, generate, replace)

NL == "\n"
CR == "\r"
LineAlphabetA == {"a"}
LineAlphabetB == {"a", "b"}

Min(x, y) == IF x < y THEN x ELSE y
Max(x, y) == IF x > y THEN x ELSE y

(***************************************************************************)
(* Text                                                                    *)
(***************************************************************************)
\* Text.sliceString(from, to) / EditorState.sliceDoc(from, to)
Slice(d, from, to) ==
  LET f == Max(0, Min(from, Len(d)))
      t == Max(f, Min(to, Len(d)))
  IN  SubSeq(d, f + 1, t)

\* Text.lineAt(pos).from
RECURSIVE LineFrom(_, _)
LineFrom(d, pos) == IF pos = 0 \/ d[pos] = NL THEN pos ELSE LineFrom(d, pos - 1)

\* Text.lineAt(pos).to
RECURSIVE LineTo(_, _)
LineTo(d, pos) == IF pos >= Len(d) \/ d[pos + 1] = NL THEN pos ELSE LineTo(d, pos + 1)

\* Offsets after position p at which a line of d starts, in order.
RECURSIVE LineStartsAfter(_, _)
LineStartsAfter(d, p) ==
  IF p > Len(d) THEN <<>>
  ELSE (IF d[p] = NL THEN <<p>> ELSE <<>>) \o LineStartsAfter(d, p + 1)

\* Offsets at which the lines of d start, in order.
LineStarts(d) == <<0>> \o LineStartsAfter(d, 1)

\* The lines of d.
Lines(d) ==
  LET st == LineStarts(d)
  IN  [i \in 1..Len(st) |-> Slice(d, st[i], LineTo(d, st[i]))]

RECURSIVE JoinLines(_)
JoinLines(ls) ==
  IF Len(ls) = 0 THEN <<>>
  ELSE IF Len(ls) = 1 THEN ls[1]
  ELSE ls[1] \o <<NL>> \o JoinLines(Tail(ls))

(***************************************************************************)
(* DiffEngine and ChunkBuilder (modules ./diff and ./chunk)                *)
(***************************************************************************)
RECURSIVE CommonPrefix(_, _)
CommonPrefix(la, lb) ==
  IF Len(la) = 0 \/ Len(lb) = 0 \/ la[1] # lb[1] THEN 0
  ELSE 1 + CommonPrefix(Tail(la), Tail(lb))

RECURSIVE CommonSuffix(_, _)
CommonSuffix(la, lb) ==
  IF Len(la) = 0 \/ Len(lb) = 0 \/ la[Len(la)] # lb[Len(lb)] THEN 0
  ELSE 1 + CommonSuffix(SubSeq(la, 1, Len(la) - 1), SubSeq(lb, 1, Len(lb) - 1))

\* Length of a longest common subsequence of two line sequences.
RECURSIVE LcsLen(_, _)
LcsLen(la, lb) ==
  IF Len(la) = 0 \/ Len(lb) = 0 THEN 0
  ELSE IF la[1] = lb[1] THEN 1 + LcsLen(Tail(la), Tail(lb))
  ELSE Max(LcsLen(Tail(la), lb), LcsLen(la, Tail(lb)))

\* Shortest edit script over lines, as the pairs <<i, j>> of matched lines.
\* Ties are broken leftmost-greedy: a line is kept as soon as it can be, and
\* among equally short scripts a changed line stays opposite its replacement.
RECURSIVE Matching(_, _, _, _)
Matching(la, lb, i, j) ==
  IF i > Len(la) \/ j > Len(lb) THEN <<>>
  ELSE IF la[i] = lb[j] THEN <<<<i, j>>>> \o Matching(la, lb, i + 1, j + 1)
  ELSE LET ra   == SubSeq(la, i, Len(la))
           rb   == SubSeq(lb, j, Len(lb))
           best == LcsLen(ra, rb)
       IN  IF LcsLen(Tail(ra), Tail(rb)) = best
           THEN Matching(la, lb, i + 1, j + 1)
           ELSE IF LcsLen(Tail(ra), rb) = best
           THEN Matching(la, lb, i + 1, j)
           ELSE Matching(la, lb, i, j + 1)

\* Matched line pairs of the whole documents: common prefix, then common
\* suffix of the remainder, then the edit script of what is left.
MatchedLines(la, lb) ==
  LET p   == CommonPrefix(la, lb)
      ra  == SubSeq(la, p + 1, Len(la))
      rb  == SubSeq(lb, p + 1, Len(lb))
      s   == CommonSuffix(ra, rb)
      ma  == SubSeq(ra, 1, Len(ra) - s)
      mb  == SubSeq(rb, 1, Len(rb) - s)
      mid == Matching(ma, mb, 1, 1)
  IN  [k \in 1..p |-> <<k, k>>]
      \o [k \in 1..Len(mid) |-> <<mid[k][1] + p, mid[k][2] + p>>]
      \o [k \in 1..s |-> <<Len(la) - s + k, Len(lb) - s + k>>]

\* The changed span between the matched lines ms[k] and ms[k + 1], in
\* absolute document coordinates.  A span that reaches the end of both
\* documents ends at their lengths, and starts before the line break that
\* precedes it when one side of it is empty.
Span(ms, k, a, b) ==
  LET stA == LineStarts(a)
      stB == LineStarts(b)
      iA  == ms[k][1] + 1
      jA  == ms[k + 1][1]
      iB  == ms[k][2] + 1
      jB  == ms[k + 1][2]
  IN  IF jA = Len(stA) + 1 /\ jB = Len(stB) + 1
      THEN [fromA |-> IF iA = jA THEN Len(a)
                      ELSE IF iB = jB THEN stA[iA] - 1 ELSE stA[iA],
            toA   |-> Len(a),
            fromB |-> IF iB = jB THEN Len(b)
                      ELSE IF iA = jA THEN stB[iB] - 1 ELSE stB[iB],
            toB   |-> Len(b)]
      ELSE [fromA |-> stA[iA], toA |-> stA[jA],
            fromB |-> stB[iB], toB |-> stB[jB]]

RECURSIVE Spans(_, _, _, _)
Spans(ms, k, a, b) ==
  IF k >= Len(ms) THEN <<>>
  ELSE IF ms[k + 1][1] > ms[k][1] + 1 \/ ms[k + 1][2] > ms[k][2] + 1
       THEN <<Span(ms, k, a, b)>> \o Spans(ms, k + 1, a, b)
       ELSE Spans(ms, k + 1, a, b)

\* diff(a, b): the changed spans between matched lines, as records
\* [fromA, toA, fromB, toB].
diff(a, b) ==
  LET la == Lines(a)
      lb == Lines(b)
  IN  Spans(<<<<0, 0>>>> \o MatchedLines(la, lb) \o <<<<Len(la) + 1, Len(lb) + 1>>>>,
            1, a, b)

\* fromLine(fromA, fromB, a, b) of the chunk builder
fromLine(fromA, fromB, a, b) ==
  IF /\ LineTo(a, fromA) = fromA /\ LineTo(b, fromB) = fromB
     /\ fromA < Len(a) /\ fromB < Len(b)
  THEN <<fromA + 1, fromB + 1>>
  ELSE <<LineFrom(a, fromA), LineFrom(b, fromB)>>

\* toLine(toA, toB, a, b) of the chunk builder
toLine(toA, toB, a, b) ==
  IF LineFrom(a, toA) = toA /\ LineFrom(b, toB) = toB
  THEN <<toA, toB>>
  ELSE <<LineTo(a, toA) + 1, LineTo(b, toB) + 1>>

\* The inner loop of toChunks: <<toA, toB, k>> once the changes after
\* changes[k] that start on the same or on the next line are taken in.
RECURSIVE Absorb(_, _, _, _, _)
Absorb(changes, k, t, a, b) ==
  IF k >= Len(changes) THEN <<t[1], t[2], k>>
  ELSE LET nf == fromLine(changes[k + 1].fromA, changes[k + 1].fromB, a, b)
       IN  IF nf[1] > t[1] + 1 /\ nf[2] > t[2] + 1
           THEN <<t[1], t[2], k>>
           ELSE Absorb(changes, k + 1,
                       toLine(changes[k + 1].toA, changes[k + 1].toB, a, b), a, b)

\* toChunks: changes on the same or on adjacent lines form one chunk, whose
\* ranges are extended to line boundaries.
RECURSIVE toChunks(_, _, _, _)
toChunks(changes, i, a, b) ==
  IF i > Len(changes) THEN <<>>
  ELSE
    LET f == fromLine(changes[i].fromA, changes[i].fromB, a, b)
        e == Absorb(changes, i, toLine(changes[i].toA, changes[i].toB, a, b), a, b)
    IN  <<[fromA |-> f[1], toA |-> Max(f[1], e[1]),
           fromB |-> f[2], toB |-> Max(f[2], e[2])]>>
        \o toChunks(changes, e[3] + 1, a, b)

\* Chunk.build(a, b, conf)
Build(a, b) == toChunks(diff(a, b), 1, a, b)

\* Chunk.endA / Chunk.endB
endA(c) == Max(c.fromA, c.toA - 1)
endB(c) == Max(c.fromB, c.toB - 1)

\* Chunk.updateA(chunks, a, b, changes, conf): the chunks around every changed
\* range of `changes` are diffed again; documents of the model lie within the
\* update margin, so the window is the whole document.  A change set without
\* changed ranges leaves the chunks as they are.
updateA(chs, a, b, changes) ==
  IF changes.from = changes.to /\ changes.insert = <<>> THEN chs ELSE Build(a, b)

\* Chunk.updateB(chunks, a, b, changes, conf)
updateB(chs, a, b, changes) ==
  IF changes.from = changes.to /\ changes.insert = <<>> THEN chs ELSE Build(a, b)

(***************************************************************************)
(* ChangeSet (@codemirror/state): one replaced range                       *)
(***************************************************************************)
\* ChangeSet.of({from, to, insert}, length) throws a RangeError on these.
InvalidRange(from, to, length) == from < 0 \/ from > to \/ to > length

ChangeSetOf(from, to, insert, length) ==
  IF from = to /\ insert = <<>>
  THEN [from |-> 0, to |-> 0, insert |-> <<>>, length |-> length]
  ELSE [from |-> from, to |-> to, insert |-> insert, length |-> length]

NoChanges(length) == ChangeSetOf(0, 0, <<>>, length)

\* ChangeSet.empty
IsEmpty(changes) == changes.from = changes.to /\ changes.insert = <<>>

\* ChangeSet.apply(doc)
Apply(changes, d) ==
  Slice(d, 0, changes.from) \o changes.insert \o Slice(d, changes.to, Len(d))

\* ChangeSet.invert(doc)
Invert(changes, d) ==
  ChangeSetOf(changes.from, changes.from + Len(changes.insert),
              Slice(d, changes.from, changes.to),
              changes.length - (changes.to - changes.from) + Len(changes.insert))

(***************************************************************************)
(* State                                                                   *)
(***************************************************************************)
VARIABLES
  originalDoc,   \* the originalDoc state field: document A
  doc,           \* state.doc: document B
  chunks,        \* the ChunkField
  done,          \* history: the events undo pops
  undone,        \* history: the events redo pops
  ret,           \* the last command and what it returned
  log,           \* the dispatched transactions, each with the state it started in
  config,        \* the UnifiedMergeConfig the view was asked for
  extension,     \* what unifiedMergeView(config) returned; <<>> before the call
  mapping        \* the last effect mapped through a change, with what map returned

vars == <<originalDoc, doc, chunks, done, undone, ret, log, config, extension, mapping>>

InitDocs(alphabet) ==
  {<<>>} \cup UNION {{JoinLines([i \in 1..n |-> <<f[i]>>]) : f \in [1..n -> alphabet]}
                     : n \in 1..(MaxLines - 1)}

(***************************************************************************)
(* The extension                                                           *)
(***************************************************************************)
\* The diff configuration the merge view uses when none is given.
defaultDiffConfig == [scanLimit |-> 500]

\* Text.of(s.split(/\r?\n/)): a line break of s is "\n" or "\r\n".
RECURSIVE TextOfSplit(_)
TextOfSplit(s) ==
  IF Len(s) = 0 THEN <<>>
  ELSE IF Len(s) >= 2 /\ s[1] = CR /\ s[2] = NL THEN <<NL>> \o TextOfSplit(SubSeq(s, 3, Len(s)))
  ELSE <<s[1]>> \o TextOfSplit(Tail(s))

\* unifiedMergeView(config): the original as a Text and the diff
\* configuration, which the field initialisers of the extension close over.
\* config.diffConfig is <<>> when it is not given.
unifiedMergeView(conf) ==
  [orig     |-> IF conf.original.kind = "string" THEN TextOfSplit(conf.original.value)
                ELSE conf.original.value,
   diffConf |-> IF conf.diffConfig = <<>> THEN defaultDiffConfig ELSE conf.diffConfig[1]]

(***************************************************************************)
(* State effects                                                           *)
(***************************************************************************)
\* ChangeDesc.mapPos(pos) throws a RangeError for a position beyond the
\* document the change applies to.
mapPosThrows(change, pos) == pos > change.length

\* ChangeDesc.mapPos(pos), with assoc = -1: a position in the replaced range
\* goes to its start, as does a position at which text is only inserted; a
\* position at or after the end of the range moves by the change in length.
mapPos(change, pos) ==
  IF pos < change.from THEN pos
  ELSE IF pos < change.to \/ (pos = change.to /\ change.from = change.to) THEN change.from
  ELSE pos + Len(change.insert) - (change.to - change.from)

\* What map returns for a dropped effect, and for a position out of range.
Undefined == [type |-> "undefined"]
RangeError == [type |-> "RangeError"]

\* Variant of map that maps chunkFromB only.
mapEffect_fromBOnly(value, change) ==
  IF mapPosThrows(change, value.chunkFromB) \/ mapPosThrows(change, value.chunkToB)
  THEN RangeError
  ELSE LET fromB == mapPos(change, value.chunkFromB)
           toB   == value.chunkToB
       IN  IF fromB < toB
           THEN [value EXCEPT !.chunkFromB = fromB, !.chunkToB = toB]
           ELSE Undefined

\* The map function of acceptChunkEffect and of rejectChunkEffect.
mapEffect(value, change) ==
  IF mapPosThrows(change, value.chunkFromB) \/ mapPosThrows(change, value.chunkToB)
  THEN RangeError
  ELSE LET fromB == mapPos(change, value.chunkFromB)
           toB   == mapPos(change, value.chunkToB)
       IN  IF fromB < toB
           THEN [value EXCEPT !.chunkFromB = fromB, !.chunkToB = toB]
           ELSE Undefined

HasEffect(effects, type) == \E i \in 1..Len(effects) : effects[i].type = type

\* tr.effects.find(e => e.is(type))
FindEffect(effects, type) ==
  effects[CHOOSE i \in 1..Len(effects) :
            /\ effects[i].type = type
            /\ \A k \in 1..(i - 1) : effects[k].type # type]

\* originalDocChangeEffect(state, changes)
originalDocChangeEffect(a, changes) ==
  [type |-> "updateOriginalDoc", doc |-> Apply(changes, a), changes |-> changes]

\* Variant of originalDoc.update that takes generated code that replaces the
\* whole document as the new original.
RECURSIVE originalDocUpdate_generateToo(_, _)
originalDocUpdate_generateToo(d, effects) ==
  IF effects = <<>> THEN d
  ELSE LET e == Head(effects)
       IN  originalDocUpdate_generateToo(
             IF e.type = "updateOriginalDoc" THEN e.doc
             ELSE IF e.type = "acceptChunk" THEN Apply(e.changes, d)
             ELSE IF e.type = "generateCode" /\ e.replaceAll THEN e.generatedCode
             ELSE d,
             Tail(effects))

\* Variant of originalDoc.update that applies the changes of a rejectChunk
\* effect to the original as well, as it does those of an acceptChunk effect.
RECURSIVE originalDocUpdate_rejectToo(_, _)
originalDocUpdate_rejectToo(d, effects) ==
  IF effects = <<>> THEN d
  ELSE LET e == Head(effects)
       IN  originalDocUpdate_rejectToo(
             IF e.type = "updateOriginalDoc" THEN e.doc
             ELSE IF e.type \in {"acceptChunk", "rejectChunk"} THEN Apply(e.changes, d)
             ELSE d,
             Tail(effects))

\* originalDoc.update(doc, tr)
RECURSIVE originalDocUpdate(_, _)
originalDocUpdate(d, effects) ==
  IF effects = <<>> THEN d
  ELSE LET e == Head(effects)
       IN  originalDocUpdate(
             IF e.type = "updateOriginalDoc" THEN e.doc
             ELSE IF e.type = "acceptChunk" THEN Apply(e.changes, d)
             ELSE d,
             Tail(effects))

\* ChangeSet.apply throws a RangeError for a document of another length than
\* the changes were made for: originalDoc.update throws on such an
\* acceptChunk effect.
RECURSIVE originalDocUpdateThrows(_, _)
originalDocUpdateThrows(d, effects) ==
  IF effects = <<>> THEN FALSE
  ELSE LET e == Head(effects)
       IN  IF e.type = "acceptChunk" /\ e.changes.length # Len(d) THEN TRUE
           ELSE originalDocUpdateThrows(
                  IF e.type = "updateOriginalDoc" THEN e.doc
                  ELSE IF e.type = "acceptChunk" THEN Apply(e.changes, d)
                  ELSE d,
                  Tail(effects))

\* The original documents the reducer hands to Chunk.updateA, in order: the
\* doc of the first updateOriginalDoc effect, then the changes of the first
\* acceptChunk effect applied to the originalDoc field of tr.startState.
reducerOriginals(tr, a) ==
  (IF HasEffect(tr.effects, "updateOriginalDoc")
   THEN <<FindEffect(tr.effects, "updateOriginalDoc").doc>> ELSE <<>>)
  \o (IF HasEffect(tr.effects, "acceptChunk")
      THEN <<Apply(FindEffect(tr.effects, "acceptChunk").changes, a)>> ELSE <<>>)

\* Variant of the reducer that updates the B side only for a document change
\* with chunks in the store, whether or not there is a rejectChunk effect.
computeChunks_docChangedOnly(chs, tr, a, b, newA, newB) ==
  LET c1 == IF HasEffect(tr.effects, "updateOriginalDoc")
            THEN LET u == FindEffect(tr.effects, "updateOriginalDoc")
                 IN  updateA(chs, u.doc, b, u.changes)
            ELSE chs
      c2 == IF HasEffect(tr.effects, "acceptChunk")
            THEN LET e == FindEffect(tr.effects, "acceptChunk")
                 IN  updateA(c1, Apply(e.changes, a), b, e.changes)
            ELSE c1
      c3 == IF HasEffect(tr.effects, "generateCode") THEN Build(newA, newB) ELSE c2
  IN  IF Len(c3) # 0 /\ ~IsEmpty(tr.changes)
      THEN updateB(c3, newA, newB, tr.changes)
      ELSE c3

\* Variant of the reducer that adds the build for a generateCode effect to
\* the chunks of the store instead of putting it in their place.
computeChunks_generateAppends(chs, tr, a, b, newA, newB) ==
  LET c1 == IF HasEffect(tr.effects, "updateOriginalDoc")
            THEN LET u == FindEffect(tr.effects, "updateOriginalDoc")
                 IN  updateA(chs, u.doc, b, u.changes)
            ELSE chs
      c2 == IF HasEffect(tr.effects, "acceptChunk")
            THEN LET e == FindEffect(tr.effects, "acceptChunk")
                 IN  updateA(c1, Apply(e.changes, a), b, e.changes)
            ELSE c1
  IN  IF HasEffect(tr.effects, "generateCode") THEN c2 \o Build(newA, newB)
      ELSE IF HasEffect(tr.effects, "rejectChunk") \/ (Len(c2) # 0 /\ ~IsEmpty(tr.changes))
      THEN updateB(c2, newA, newB, tr.changes)
      ELSE c2

\* Variant of the reducer without the branch for the generateCode effect.
computeChunks_noGenerate(chs, tr, a, b, newA, newB) ==
  LET c1 == IF HasEffect(tr.effects, "updateOriginalDoc")
            THEN LET u == FindEffect(tr.effects, "updateOriginalDoc")
                 IN  updateA(chs, u.doc, b, u.changes)
            ELSE chs
      c2 == IF HasEffect(tr.effects, "acceptChunk")
            THEN LET e == FindEffect(tr.effects, "acceptChunk")
                 IN  updateA(c1, Apply(e.changes, a), b, e.changes)
            ELSE c1
  IN  IF HasEffect(tr.effects, "rejectChunk") \/ (Len(c2) # 0 /\ ~IsEmpty(tr.changes))
      THEN updateB(c2, newA, newB, tr.changes)
      ELSE c2

\* Variant of the reducer without the branch for the acceptChunk effect.
computeChunks_noAccept(chs, tr, a, b, newA, newB) ==
  LET c1 == IF HasEffect(tr.effects, "updateOriginalDoc")
            THEN LET u == FindEffect(tr.effects, "updateOriginalDoc")
                 IN  updateA(chs, u.doc, b, u.changes)
            ELSE chs
      c3 == IF HasEffect(tr.effects, "generateCode") THEN Build(newA, newB) ELSE c1
  IN  IF HasEffect(tr.effects, "rejectChunk") \/ (Len(c3) # 0 /\ ~IsEmpty(tr.changes))
      THEN updateB(c3, newA, newB, tr.changes)
      ELSE c3

\* The reducer unifiedMergeView gives to computeChunks.  a and b are the
\* originalDoc field and the document of tr.startState, newA and newB those
\* of tr.state.
computeChunks(chs, tr, a, b, newA, newB) ==
  LET c1 == IF HasEffect(tr.effects, "updateOriginalDoc")
            THEN LET u == FindEffect(tr.effects, "updateOriginalDoc")
                 IN  updateA(chs, u.doc, b, u.changes)
            ELSE chs
      c2 == IF HasEffect(tr.effects, "acceptChunk")
            THEN LET e == FindEffect(tr.effects, "acceptChunk")
                 IN  updateA(c1, Apply(e.changes, a), b, e.changes)
            ELSE c1
      c3 == IF HasEffect(tr.effects, "generateCode") THEN Build(newA, newB) ELSE c2
  IN  IF HasEffect(tr.effects, "rejectChunk") \/ (Len(c3) # 0 /\ ~IsEmpty(tr.changes))
      THEN updateB(c3, newA, newB, tr.changes)
      ELSE c3

\* Variant of createUndoableChunkOperations in which the inverse of an accept
\* carries the original document the accept produces, not the one it started
\* from.
RECURSIVE createUndoableChunkOperations_acceptedDoc(_, _, _)
createUndoableChunkOperations_acceptedDoc(effects, a, b) ==
  IF effects = <<>> THEN <<>>
  ELSE LET e == Head(effects)
           found ==
             IF e.type = "acceptChunk"
             THEN <<[type |-> "updateOriginalDoc", doc |-> Apply(e.changes, e.originalDoc),
                     changes |-> Invert(e.changes, a)]>>
             ELSE IF e.type = "rejectChunk"
             THEN <<[type |-> "rejectChunk",
                     chunkFromA |-> e.chunkFromA, chunkToA |-> e.chunkToA,
                     chunkFromB |-> e.chunkFromB, chunkToB |-> e.chunkToB,
                     originalContent |-> e.currentContent,
                     currentContent |-> e.originalContent,
                     changes |-> Invert(e.changes, b)]>>
             ELSE <<>>
       IN  found \o createUndoableChunkOperations_acceptedDoc(Tail(effects), a, b)

\* The function createUndoableChunkOperations gives to invertedEffects.
RECURSIVE createUndoableChunkOperations(_, _, _)
createUndoableChunkOperations(effects, a, b) ==
  IF effects = <<>> THEN <<>>
  ELSE LET e == Head(effects)
           found ==
             IF e.type = "acceptChunk"
             THEN <<[type |-> "updateOriginalDoc", doc |-> e.originalDoc,
                     changes |-> Invert(e.changes, a)]>>
             ELSE IF e.type = "rejectChunk"
             THEN <<[type |-> "rejectChunk",
                     chunkFromA |-> e.chunkFromA, chunkToA |-> e.chunkToA,
                     chunkFromB |-> e.chunkFromB, chunkToB |-> e.chunkToB,
                     originalContent |-> e.currentContent,
                     currentContent |-> e.originalContent,
                     changes |-> Invert(e.changes, b)]>>
             ELSE <<>>
       IN  found \o createUndoableChunkOperations(Tail(effects), a, b)

(***************************************************************************)
(* History (the history field that consumes invertedEffects)               *)
(***************************************************************************)
NoEvent == [kind |-> "none", changes |-> NoChanges(0), effects |-> <<>>]
SelectionEvent == [kind |-> "selection", changes |-> NoChanges(0), effects |-> <<>>]

\* HistEvent.fromTransaction(tr): the inverse of tr, from the state tr starts
\* in; null when tr changes no text and no inverted effect is found.
fromTransaction(tr, a, b) ==
  LET effects == createUndoableChunkOperations(tr.effects, a, b)
  IN  IF Len(effects) = 0 /\ IsEmpty(tr.changes) THEN NoEvent
      ELSE [kind |-> "change", changes |-> Invert(tr.changes, b), effects |-> effects]

\* addSelection(branch, selection): an empty branch gets a selection-only
\* event, which pop cannot replay.
addSelection(branch) == IF Len(branch) = 0 THEN <<SelectionEvent>> ELSE branch

\* HistoryState.pop(side, state, false) returns a transaction for this branch.
CanPop(branch) == Len(branch) > 0 /\ branch[Len(branch)].kind = "change"

\* The transaction pop builds from the last event of the branch.
pop(branch, side) ==
  [changes  |-> branch[Len(branch)].changes,
   effects  |-> branch[Len(branch)].effects,
   fromHist |-> side,
   rest     |-> SubSeq(branch, 1, Len(branch) - 1)]

\* A transaction that does not come from the history.
Transaction(changes, effects) ==
  [changes |-> changes, effects |-> effects, fromHist |-> "none", rest |-> <<>>]

(***************************************************************************)
(* Commands                                                                *)
(***************************************************************************)
NoChunk == [fromA |-> -1, toA |-> -1, fromB |-> -1, toB |-> -1]

InputOps == {"edit", "generate", "replaceOriginal", "host"}

\* A run takes commands until one returns without dispatching: that command
\* leaves the state it started in, from which every other command is taken
\* as well.
Running == Len(log) < MaxSteps /\ ret.value = "true"

\* view.dispatch(tr): the document, the originalDoc field, the ChunkField and
\* the history field are all updated by the one transaction.
Dispatch(tr, cmd, op, chunk) ==
  /\ Running
  /\ op \in InputOps =>
       /\ Cardinality({i \in 1..Len(log) : log[i].op \in InputOps}) < MaxInputs
       /\ op # "replaceOriginal" => Len(log) < MaxInputs
  /\ doc' = Apply(tr.changes, doc)
  /\ originalDoc' = originalDocUpdate(originalDoc, tr.effects)
  /\ chunks' = computeChunks(chunks, tr, originalDoc, doc, originalDoc', doc')
  /\ LET item == fromTransaction(tr, originalDoc, doc)
     IN  IF tr.fromHist = "none"
         THEN /\ done' = IF item.kind = "none" THEN done ELSE Append(done, item)
              /\ undone' = IF item.kind = "none" THEN undone ELSE <<>>
         ELSE IF tr.fromHist = "done"
         THEN /\ done' = tr.rest
              /\ undone' = IF item.kind = "none" THEN addSelection(undone)
                           ELSE Append(undone, item)
         ELSE /\ undone' = tr.rest
              /\ done' = IF item.kind = "none" THEN addSelection(done)
                         ELSE Append(done, item)
  /\ ret' = [cmd |-> cmd, value |-> "true"]
  /\ log' = Append(log, [op |-> op, chunk |-> chunk, tr |-> tr,
                         A |-> originalDoc, B |-> doc, chunks |-> chunks])
  /\ UNCHANGED <<config, extension, mapping>>

\* A command that returns without dispatching.
Return(cmd, value) ==
  /\ Running
  /\ ret' = [cmd |-> cmd, value |-> value]
  /\ UNCHANGED <<originalDoc, doc, chunks, done, undone, log, config, extension, mapping>>

\* Variant of the search that compares the position with toB, not endB.
findChunk_toB(chs, at) ==
  LET hit == {i \in 1..Len(chs) : chs[i].fromB <= at /\ chs[i].toB >= at}
  IN  IF hit = {} THEN 0 ELSE CHOOSE i \in hit : \A k \in hit : i <= k

\* state.field(ChunkField).find(ch => ch.fromB <= at && ch.endB >= at):
\* the index of the chunk found, 0 when there is none.
findChunk(chs, at) ==
  LET hit == {i \in 1..Len(chs) : chs[i].fromB <= at /\ endB(chs[i]) >= at}
  IN  IF hit = {} THEN 0 ELSE CHOOSE i \in hit : \A k \in hit : i <= k

\* Variant of the inserted text with the line break appended whenever the
\* chunk is not at the end of the original, also for an empty B range.
acceptInsert_alwaysBreak(chunk, a, b) ==
  Slice(b, chunk.fromB, Max(chunk.fromB, chunk.toB - 1))
    \o (IF chunk.toA <= Len(a) THEN <<NL>> ELSE <<>>)

\* The text acceptChunk inserts into the original document.
acceptInsert(chunk, a, b) ==
  Slice(b, chunk.fromB, Max(chunk.fromB, chunk.toB - 1))
    \o (IF chunk.fromB # chunk.toB /\ chunk.toA <= Len(a) THEN <<NL>> ELSE <<>>)

\* Variant of the transaction in which the changes are passed to dispatch as
\* document changes too.
acceptTransaction_changesDoc(chunk, a, b) ==
  LET insert == acceptInsert(chunk, a, b)
      changes == ChangeSetOf(chunk.fromA, Min(Len(a), chunk.toA), insert, Len(a))
  IN  Transaction(changes,
        <<[type |-> "acceptChunk",
           chunkFromA |-> chunk.fromA, chunkToA |-> chunk.toA,
           chunkFromB |-> chunk.fromB, chunkToB |-> chunk.toB,
           originalDoc |-> a, currentContent |-> insert,
           changes |-> changes]>>)

\* Variant of the transaction whose effect holds the original document as
\* it is after the accept.
acceptTransaction_acceptedSnapshot(chunk, a, b) ==
  LET insert == acceptInsert(chunk, a, b)
      changes == ChangeSetOf(chunk.fromA, Min(Len(a), chunk.toA), insert, Len(a))
  IN  Transaction(NoChanges(Len(b)),
        <<[type |-> "acceptChunk",
           chunkFromA |-> chunk.fromA, chunkToA |-> chunk.toA,
           chunkFromB |-> chunk.fromB, chunkToB |-> chunk.toB,
           originalDoc |-> Apply(changes, a), currentContent |-> insert,
           changes |-> changes]>>)

\* The transaction acceptChunk dispatches for the chunk.
acceptTransaction(chunk, a, b) ==
  LET insert == acceptInsert(chunk, a, b)
  IN  Transaction(NoChanges(Len(b)),
        <<[type |-> "acceptChunk",
           chunkFromA |-> chunk.fromA, chunkToA |-> chunk.toA,
           chunkFromB |-> chunk.fromB, chunkToB |-> chunk.toB,
           originalDoc |-> a, currentContent |-> insert,
           changes |-> ChangeSetOf(chunk.fromA, Min(Len(a), chunk.toA), insert, Len(a))]>>)

\* acceptChunk(view, pos)
acceptChunk(pos) ==
  LET i == findChunk(chunks, pos)
  IN  IF i = 0 THEN Return("acceptChunk", "false")
      ELSE IF InvalidRange(chunks[i].fromA, Min(Len(originalDoc), chunks[i].toA),
                           Len(originalDoc))
      THEN Return("acceptChunk", "RangeError")
      ELSE Dispatch(acceptTransaction(chunks[i], originalDoc, doc),
                    "acceptChunk", "accept", chunks[i])

\* Variant of the inserted text with the line break appended whenever the
\* chunk is not at the end of the document, also for an empty A range.
rejectInsert_alwaysBreak(chunk, a, b) ==
  Slice(a, chunk.fromA, Max(chunk.fromA, chunk.toA - 1))
    \o (IF chunk.toB <= Len(b) THEN <<NL>> ELSE <<>>)

\* Variant of the inserted text without the line break.
rejectInsert_noBreak(chunk, a, b) ==
  Slice(a, chunk.fromA, Max(chunk.fromA, chunk.toA - 1))

\* The text rejectChunk inserts into the document.
rejectInsert(chunk, a, b) ==
  Slice(a, chunk.fromA, Max(chunk.fromA, chunk.toA - 1))
    \o (IF chunk.fromA # chunk.toA /\ chunk.toB <= Len(b) THEN <<NL>> ELSE <<>>)

\* The transaction rejectChunk dispatches for the chunk.
rejectTransaction(chunk, a, b) ==
  LET insert  == rejectInsert(chunk, a, b)
      changes == ChangeSetOf(chunk.fromB, Min(Len(b), chunk.toB), insert, Len(b))
  IN  Transaction(changes,
        <<[type |-> "rejectChunk",
           chunkFromA |-> chunk.fromA, chunkToA |-> chunk.toA,
           chunkFromB |-> chunk.fromB, chunkToB |-> chunk.toB,
           originalContent |-> insert,
           currentContent |-> Slice(b, chunk.fromB, Max(chunk.fromB, chunk.toB - 1)),
           changes |-> changes]>>)

\* rejectChunk(view, pos)
rejectChunk(pos) ==
  LET i == findChunk(chunks, pos)
  IN  IF i = 0 THEN Return("rejectChunk", "false")
      ELSE IF InvalidRange(chunks[i].fromB, Min(Len(doc), chunks[i].toB), Len(doc))
      THEN Return("rejectChunk", "RangeError")
      ELSE Dispatch(rejectTransaction(chunks[i], originalDoc, doc),
                    "rejectChunk", "reject", chunks[i])

\* The transaction applyGeneratedCode dispatches; head is the cursor position.
generateTransaction(b, generatedCode, replaceAll, insertAt, head) ==
  LET changes == IF replaceAll THEN ChangeSetOf(0, Len(b), generatedCode, Len(b))
                 ELSE IF insertAt # -1
                 THEN ChangeSetOf(insertAt, insertAt, generatedCode, Len(b))
                 ELSE ChangeSetOf(head, head, generatedCode, Len(b))
  IN  Transaction(changes,
        <<[type |-> "generateCode", generatedCode |-> generatedCode,
           replaceAll |-> replaceAll, insertAt |-> insertAt]>>)

\* applyGeneratedCode(view, generatedCode, options); insertAt = -1 is undefined.
applyGeneratedCode(generatedCode, replaceAll, insertAt, head) ==
  Dispatch(generateTransaction(doc, generatedCode, replaceAll, insertAt, head),
           "applyGeneratedCode", "generate", NoChunk)

\* view.dispatch({effects: originalDocChangeEffect(view.state, changes)})
replaceOriginal(from, to, insert) ==
  Dispatch(Transaction(NoChanges(Len(doc)),
             <<originalDocChangeEffect(originalDoc,
                 ChangeSetOf(from, to, insert, Len(originalDoc)))>>),
           "dispatch", "replaceOriginal", NoChunk)

\* An edit of the document by the user.
userEdit(from, to, insert) ==
  /\ ~IsEmpty(ChangeSetOf(from, to, insert, Len(doc)))
  /\ Dispatch(Transaction(ChangeSetOf(from, to, insert, Len(doc)), <<>>),
              "dispatch", "edit", NoChunk)

\* The undo command of the history.
undo ==
  IF CanPop(done) THEN Dispatch(pop(done, "done"), "undo", "undo", NoChunk)
  ELSE Return("undo", "false")

\* The redo command of the history.
redo ==
  IF CanPop(undone) THEN Dispatch(pop(undone, "undone"), "redo", "redo", NoChunk)
  ELSE Return("redo", "false")

(***************************************************************************)
(* Specification                                                           *)
(***************************************************************************)
GeneratedCodes == {<<"b">>}
EditTexts == {<<>>, <<"b">>}
OriginalTexts == {<<>>, <<"b", NL>>}

Init ==
  /\ originalDoc \in InitDocs(LineAlphabetA)
  /\ doc \in InitDocs(LineAlphabetB)
  /\ Len(Lines(originalDoc)) + Len(Lines(doc)) <= MaxLines
  /\ chunks = Build(originalDoc, doc)
  /\ done = <<>>
  /\ undone = <<>>
  /\ ret = [cmd |-> "none", value |-> "true"]
  /\ log = <<>>
  /\ config = [original |-> [kind |-> "Text", value |-> originalDoc], diffConfig |-> <<>>]
  /\ extension = <<unifiedMergeView(config)>>
  /\ mapping = <<>>

\* The positions a command is called at: the ends of the document and the
\* bounds of every chunk, so that each chunk is hit and missed on both sides.
Positions ==
  ({0, Len(doc)} \cup UNION {{chunks[i].fromB, chunks[i].toB} : i \in 1..Len(chunks)})
    \cap (0..Len(doc))

AcceptChunk == \E pos \in Positions : acceptChunk(pos)

RejectChunk == \E pos \in Positions : rejectChunk(pos)

\* The user types or deletes a character at the start of the document.
UserEdit ==
  \E ins \in EditTexts : userEdit(0, IF ins = <<>> THEN Min(1, Len(doc)) ELSE 0, ins)

\* The host replaces the first line of the original, or puts a line before it.
ReplaceOriginal ==
  \E ins \in OriginalTexts :
    LET to == IF ins = <<>> THEN Min(LineTo(originalDoc, 0) + 1, Len(originalDoc)) ELSE 0
    IN  /\ ~IsEmpty(ChangeSetOf(0, to, ins, Len(originalDoc)))
        /\ replaceOriginal(0, to, ins)

\* Generated code replaces the document, or goes to its start (insertAt) or
\* to the cursor, which is at its end.
ApplyGeneratedCode ==
  \E code \in GeneratedCodes, mode \in {"replaceAll", "insertAt", "cursor"} :
    applyGeneratedCode(code, mode = "replaceAll", IF mode = "insertAt" THEN 0 ELSE -1,
                       Len(doc))

Undo == undo

Redo == redo

Next ==
  \/ AcceptChunk
  \/ RejectChunk
  \/ UserEdit
  \/ ReplaceOriginal
  \/ ApplyGeneratedCode
  \/ Undo
  \/ Redo

Spec == Init /\ [][Next]_vars

(***************************************************************************)
(* Transactions of the host with several effects                           *)
(***************************************************************************)
\* The effects a host makes from the state of the view: acceptChunkEffect as
\* acceptChunk fills it in for a chunk of the store, and the effect of
\* originalDocChangeEffect for a change of the first line of the original.
HostEffects ==
  {FindEffect(acceptTransaction(chunks[i], originalDoc, doc).effects, "acceptChunk")
     : i \in 1..Len(chunks)}
  \cup {e \in {originalDocChangeEffect(originalDoc,
                  ChangeSetOf(0, IF ins = <<>>
                                 THEN Min(LineTo(originalDoc, 0) + 1, Len(originalDoc))
                                 ELSE 0,
                              ins, Len(originalDoc)))
                : ins \in OriginalTexts}
          : ~IsEmpty(e.changes)}

\* view.dispatch({effects}) with one effect or two.
HostDispatch ==
  \E e1 \in HostEffects, e2 \in HostEffects, n \in 1..2 :
    LET effects == IF n = 1 THEN <<e1>> ELSE <<e1, e2>>
    IN  IF originalDocUpdateThrows(originalDoc, effects)
        THEN Return("dispatch", "RangeError")
        ELSE Dispatch(Transaction(NoChanges(Len(doc)), effects), "dispatch", "host", NoChunk)

NextHost == HostDispatch

SpecHost == Init /\ [][NextHost]_vars

(***************************************************************************)
(* Mapping of the effects of accept and reject through a document change   *)
(***************************************************************************)
\* The changes of the document: one replaced range, or no change.
DocChanges ==
  UNION {{ChangeSetOf(from, to, ins, Len(doc)) : to \in from..Len(doc), ins \in EditTexts}
         : from \in 0..Len(doc)}

\* The effect of accepting or of rejecting a chunk of the store is mapped
\* through a change of the document; a run follows one call of map.
MapEffect ==
  \E i \in 1..Len(chunks), type \in {"acceptChunk", "rejectChunk"}, change \in DocChanges :
    LET tr == IF type = "acceptChunk" THEN acceptTransaction(chunks[i], originalDoc, doc)
              ELSE rejectTransaction(chunks[i], originalDoc, doc)
        e  == FindEffect(tr.effects, type)
    IN  /\ mapping = <<>>
        /\ mapping' = <<[effect |-> e, change |-> change, result |-> mapEffect(e, change)]>>
        /\ UNCHANGED <<originalDoc, doc, chunks, done, undone, ret, log, config, extension>>

\* A view whose original document has lines that differ, so that its chunks
\* take every shape: changed lines, lines only in B, lines only in A.
InitMap ==
  /\ originalDoc \in InitDocs(LineAlphabetB)
  /\ doc \in InitDocs(LineAlphabetB)
  /\ Len(Lines(originalDoc)) + Len(Lines(doc)) <= MaxLines
  /\ chunks = Build(originalDoc, doc)
  /\ done = <<>>
  /\ undone = <<>>
  /\ ret = [cmd |-> "none", value |-> "true"]
  /\ log = <<>>
  /\ config = [original |-> [kind |-> "Text", value |-> originalDoc], diffConfig |-> <<>>]
  /\ extension = <<unifiedMergeView(config)>>
  /\ mapping = <<>>

NextMap == MapEffect

SpecMap == InitMap /\ [][NextMap]_vars

(***************************************************************************)
(* Construction of the view                                                *)
(***************************************************************************)
\* Scan limits a configuration may give; the documents of the model are
\* diffed in full within the default limit.
ScanLimits == {-1, 0, 500}

\* d with every line break written as br.
RECURSIVE WithLineBreak(_, _)
WithLineBreak(d, br) ==
  IF Len(d) = 0 THEN <<>>
  ELSE (IF d[1] = NL THEN br ELSE <<d[1]>>) \o WithLineBreak(Tail(d), br)

\* config.original is a Text or a string.
Originals ==
  {[kind |-> "Text", value |-> d] : d \in InitDocs(LineAlphabetA)}
    \cup {[kind |-> "string", value |-> WithLineBreak(d, br)] :
            d \in InitDocs(LineAlphabetA), br \in {<<NL>>, <<CR, NL>>}}

DiffConfigs == {<<>>} \cup {<<[scanLimit |-> n]>> : n \in ScanLimits}

\* Before unifiedMergeView is called: a configuration, and the document the
\* editor state will be created with.
InitConstruct ==
  /\ config \in {[original |-> o, diffConfig |-> c] : o \in Originals, c \in DiffConfigs}
  /\ extension = <<>>
  /\ originalDoc = <<>>
  /\ doc \in InitDocs(LineAlphabetB)
  /\ Len(Lines(TextOfSplit(config.original.value))) + Len(Lines(doc)) <= MaxLines
  /\ chunks = <<>>
  /\ done = <<>>
  /\ undone = <<>>
  /\ ret = [cmd |-> "none", value |-> "true"]
  /\ log = <<>>
  /\ mapping = <<>>

\* The host calls unifiedMergeView(config).
UnifiedMergeView ==
  /\ extension = <<>>
  /\ extension' = <<unifiedMergeView(config)>>
  /\ ret' = [cmd |-> "unifiedMergeView", value |-> "true"]
  /\ UNCHANGED <<originalDoc, doc, chunks, done, undone, log, config, mapping>>

\* EditorState.create({doc, extensions}): originalDoc.init and ChunkField.init
\* run.  The view is followed further only for a positive scan limit: what
\* Chunk.build returns for another one is not known.
CreateState ==
  /\ extension # <<>>
  /\ ret.cmd = "unifiedMergeView"
  /\ extension[1].diffConf.scanLimit > 0
  /\ originalDoc' = extension[1].orig
  /\ chunks' = Build(extension[1].orig, doc)
  /\ ret' = [cmd |-> "EditorState.create", value |-> "true"]
  /\ UNCHANGED <<doc, done, undone, log, config, extension, mapping>>

NextConstruct ==
  \/ UnifiedMergeView
  \/ CreateState

SpecConstruct == InitConstruct /\ [][NextConstruct]_vars

(***************************************************************************)
(* Properties                                                              *)
(***************************************************************************)
\* The state the i-th transaction of the run left.
PostA(i) == IF i = Len(log) THEN originalDoc ELSE log[i + 1].A
PostB(i) == IF i = Len(log) THEN doc ELSE log[i + 1].B
PostChunks(i) == IF i = Len(log) THEN chunks ELSE log[i + 1].chunks

\* Some chunk of chs satisfies fromB <= pos <= endB.
Covered(chs, pos) ==
  \E k \in 1..Len(chs) : chs[k].fromB <= pos /\ pos <= endB(chs[k])

\* C1: in every reachable state the chunk store is empty exactly when A and
\* B are textually identical.
C1_StoreEmptyIffIdentical == (Len(chunks) = 0) <=> (originalDoc = doc)

\* C2: an accept followed at once by an undo restores A and the chunk
\* store to what they were before the accept, and B never changes.
C2_AcceptUndoRoundTrip ==
  \A i \in 1..(Len(log) - 1) :
    (log[i].op = "accept" /\ log[i + 1].op = "undo")
      => /\ PostA(i + 1) = log[i].A
         /\ PostChunks(i + 1) = log[i].chunks
         /\ log[i + 1].B = log[i].B
         /\ PostB(i + 1) = log[i].B

C2_Witness ==
  \E i \in 1..(Len(log) - 1) :
    /\ log[i].op = "accept" /\ log[i + 1].op = "undo"
    /\ log[i + 1].A # log[i].A
    /\ log[i + 1].chunks # log[i].chunks

\* C3: a reject followed at once by an undo restores B and the chunk store
\* to what they were before the reject, and A never changes; also when the
\* reject emptied the store.
C3_RejectUndoRoundTrip ==
  \A i \in 1..(Len(log) - 1) :
    (log[i].op = "reject" /\ log[i + 1].op = "undo")
      => /\ PostB(i + 1) = log[i].B
         /\ PostChunks(i + 1) = log[i].chunks
         /\ log[i + 1].A = log[i].A
         /\ PostA(i + 1) = log[i].A

C3_Witness ==
  \E i \in 1..(Len(log) - 1) :
    /\ log[i].op = "reject" /\ log[i + 1].op = "undo"
    /\ log[i + 1].B # log[i].B
    /\ Len(log[i].chunks) = 1
    /\ Len(log[i + 1].chunks) = 0

\* C4: after an accept or a reject and its undo, redo is dispatched and
\* leaves A, B and the chunk store as the accept or reject left them.
C4_UndoRedoRestores ==
  LET n == Len(log)
  IN  /\ (n >= 2 /\ log[n - 1].op \in {"accept", "reject"} /\ log[n].op = "undo")
           => ~(ret.cmd = "redo" /\ ret.value = "false")
      /\ \A i \in 1..(n - 2) :
           (log[i].op \in {"accept", "reject"} /\ log[i + 1].op = "undo"
              /\ log[i + 2].op = "redo")
             => /\ PostA(i + 2) = log[i + 1].A
                /\ PostB(i + 2) = log[i + 1].B
                /\ PostChunks(i + 2) = log[i + 1].chunks

\* C5: acceptChunk and rejectChunk at a position no chunk covers return
\* false and leave A, B, the chunk store and the history as they are.
C5_MissChangesNothing ==
  [][\A pos \in 0..Len(doc) :
       (~Covered(chunks, pos) /\ (acceptChunk(pos) \/ rejectChunk(pos)))
         => /\ ret'.value = "false"
            /\ UNCHANGED <<originalDoc, doc, chunks, done, undone>>]_vars

C5_Witness ==
  /\ ret.cmd \in {"acceptChunk", "rejectChunk"}
  /\ ret.value = "false"
  /\ Len(chunks) > 0

\* C6: the transaction of an accept carries no document change: B is the
\* same before and after it.
C6_AcceptLeavesB ==
  \A i \in 1..Len(log) :
    log[i].op = "accept" => (IsEmpty(log[i].tr.changes) /\ PostB(i) = log[i].B)

C6_Witness ==
  \E i \in 1..Len(log) : log[i].op = "accept" /\ PostA(i) # log[i].A

\* C7: the originalDoc field is the same before and after a reject, and
\* before and after the undo and the redo of a reject.
C7_RejectLeavesA ==
  \A i \in 1..Len(log) :
    (log[i].op \in {"reject", "undo", "redo"} /\ HasEffect(log[i].tr.effects, "rejectChunk"))
      => PostA(i) = log[i].A

C7_Witness ==
  /\ Len(log) >= 3
  /\ log[1].op = "reject" /\ log[2].op = "undo" /\ log[3].op = "redo"
  /\ HasEffect(log[3].tr.effects, "rejectChunk")
  /\ doc # log[1].B

\* Some chunk of chs meets the lines [from, end] of the B side.
MeetsB(chs, from, end) ==
  \E k \in 1..Len(chs) : chs[k].fromB <= end /\ endB(chs[k]) >= from

\* Some chunk of chs meets the lines [from, end] of the A side.
MeetsA(chs, from, end) ==
  \E k \in 1..Len(chs) : chs[k].fromA <= end /\ endA(chs[k]) >= from

C9_RejectResolvesC ==
  \A i \in 1..Len(log) :
    log[i].op = "reject" =>
      LET c == log[i].chunk
          a == log[i].A
          text == Slice(a, c.fromA, endA(c))
      IN  /\ Slice(PostB(i), c.fromB, c.fromB + Len(text)) = text
          /\ ~MeetsA(PostChunks(i), c.fromA, endA(c))
          /\ Len(log[i].chunks) = 1
               => (Len(PostChunks(i)) = 0 /\ PostB(i) = PostA(i))

C9_Witness ==
  /\ \E i \in 1..Len(log) :
       /\ log[i].op = "reject"
       /\ Len(log[i].chunks) = 1
       /\ PostB(i) # log[i].B
  /\ \E i \in 1..Len(log) :
       /\ log[i].op = "reject"
       /\ Len(log[i].chunks) = 2
       /\ Len(PostChunks(i)) = 1

\* The chunk reaches the end of A: toA is past the last character.
AtEndOfA(c, a) == c.toA > Len(a)

\* C10 as stated: an accept replaces [fromA, toA) of A by the text of the
\* chunk's lines of B, followed by a line terminator whenever the chunk is
\* not at the end of A, whatever the shape of the chunk.
C10_AcceptEditAsStated ==
  \A i \in 1..Len(log) :
    log[i].op = "accept" =>
      LET c == log[i].chunk
          a == log[i].A
          b == log[i].B
          insert == Slice(b, c.fromB, endB(c))
                      \o (IF ~AtEndOfA(c, a) THEN <<NL>> ELSE <<>>)
      IN  PostA(i) = Slice(a, 0, c.fromA) \o insert \o Slice(a, c.toA, Len(a))

\* C10 amended: an accept replaces [fromA, min(toA, length of A)) of A by
\* the text of the chunk's lines of B, followed by a line terminator when
\* the chunk is not at the end of A and its B range is not empty; a pure
\* deletion inserts nothing.
C10_AcceptEdit ==
  \A i \in 1..Len(log) :
    log[i].op = "accept" =>
      LET c == log[i].chunk
          a == log[i].A
          b == log[i].B
          insert == Slice(b, c.fromB, endB(c))
                      \o (IF ~AtEndOfA(c, a) /\ c.fromB # c.toB THEN <<NL>> ELSE <<>>)
          e == FindEffect(log[i].tr.effects, "acceptChunk")
      IN  /\ e.changes = ChangeSetOf(c.fromA, Min(c.toA, Len(a)), insert, Len(a))
          /\ PostA(i) = Slice(a, 0, c.fromA) \o insert \o Slice(a, c.toA, Len(a))

\* An accept of a pure deletion that is not at the end of A.
C10_Witness ==
  \E i \in 1..Len(log) :
    /\ log[i].op = "accept"
    /\ log[i].chunk.fromB = log[i].chunk.toB
    /\ log[i].chunk.fromA # log[i].chunk.toA
    /\ ~AtEndOfA(log[i].chunk, log[i].A)
    /\ PostA(i) # log[i].A

\* The chunk reaches the end of B: toB is past the last character.
AtEndOfB(c, b) == c.toB > Len(b)

\* C11 as stated: a reject replaces [fromB, toB) of B by the text of the
\* chunk's lines of A, followed by a line terminator whenever the chunk is
\* not at the end of B, whatever the shape of the chunk.
C11_RejectEditAsStated ==
  \A i \in 1..Len(log) :
    log[i].op = "reject" =>
      LET c == log[i].chunk
          a == log[i].A
          b == log[i].B
          insert == Slice(a, c.fromA, endA(c))
                      \o (IF ~AtEndOfB(c, b) THEN <<NL>> ELSE <<>>)
      IN  PostB(i) = Slice(b, 0, c.fromB) \o insert \o Slice(b, c.toB, Len(b))

\* C11 amended: a reject replaces [fromB, min(toB, length of B)) of B by
\* the text of the chunk's lines of A, followed by a line terminator when
\* the chunk is not at the end of B and its A range is not empty; the reject
\* of a pure insertion inserts nothing.
C11_RejectEdit ==
  \A i \in 1..Len(log) :
    log[i].op = "reject" =>
      LET c == log[i].chunk
          a == log[i].A
          b == log[i].B
          insert == Slice(a, c.fromA, endA(c))
                      \o (IF ~AtEndOfB(c, b) /\ c.fromA # c.toA THEN <<NL>> ELSE <<>>)
          e == FindEffect(log[i].tr.effects, "rejectChunk")
      IN  /\ log[i].tr.changes = ChangeSetOf(c.fromB, Min(c.toB, Len(b)), insert, Len(b))
          /\ e.changes = log[i].tr.changes
          /\ PostB(i) = Slice(b, 0, c.fromB) \o insert \o Slice(b, c.toB, Len(b))

\* A reject of a pure insertion that is not at the end of B.
C11_Witness ==
  \E i \in 1..Len(log) :
    /\ log[i].op = "reject"
    /\ log[i].chunk.fromA = log[i].chunk.toA
    /\ log[i].chunk.fromB # log[i].chunk.toB
    /\ ~AtEndOfB(log[i].chunk, log[i].B)
    /\ PostB(i) # log[i].B

C13_OnlyAcceptAndReplaceChangeA ==
  \A i \in 1..Len(log) :
    (~HasEffect(log[i].tr.effects, "acceptChunk")
       /\ ~HasEffect(log[i].tr.effects, "updateOriginalDoc"))
      => PostA(i) = log[i].A

\* Generated code that replaces the whole document, and its undo.
C13_Witness ==
  \E i \in 1..(Len(log) - 1) :
    /\ log[i].op = "generate"
    /\ FindEffect(log[i].tr.effects, "generateCode").replaceAll
    /\ log[i + 1].op = "undo"
    /\ log[i + 1].B # log[i].B
    /\ log[i].A # <<"b">>

\* C14: in every reachable state the chunks of the store are in order and
\* do not overlap, on the A side and on the B side.
C14_ChunksSorted ==
  /\ \A k \in 1..Len(chunks) :
       chunks[k].fromA <= chunks[k].toA /\ chunks[k].fromB <= chunks[k].toB
  /\ \A k \in 1..(Len(chunks) - 1) :
       chunks[k].toA <= chunks[k + 1].fromA /\ chunks[k].toB <= chunks[k + 1].fromB

\* A store of two chunks or more after a transaction.
C14_Witness == Len(chunks) >= 2 /\ Len(log) >= 1

\* The undo at log[j] replays the inverse that the transaction at log[i]
\* stored in the history when it was applied.
Replays(j, i) ==
  /\ i < j
  /\ log[j].op = "undo"
  /\ LET item == fromTransaction(log[i].tr, log[i].A, log[i].B)
     IN  /\ item.kind = "change"
         /\ log[j].tr.changes = item.changes
         /\ log[j].tr.effects = item.effects

\* C15: the inverse of an accept or a reject is fixed by the state the
\* operation is applied in.  An undo of an accept leaves A as it was just
\* before that accept, and an undo of a reject puts back, at the place of the
\* range the reject replaced, exactly the text that was there, whatever A and
\* B are when the undo runs.
C15_UndoRestoresWhatWasReplaced ==
  \A i \in 1..Len(log) : \A j \in 1..Len(log) :
    Replays(j, i) =>
      /\ log[i].op = "accept" => PostA(j) = log[i].A
      /\ log[i].op = "reject" =>
           LET ch == log[i].tr.changes
           IN  /\ log[j].tr.changes.insert = Slice(log[i].B, ch.from, ch.to)
               /\ Slice(PostB(j), ch.from, ch.to) = Slice(log[i].B, ch.from, ch.to)
               /\ PostB(j) = log[i].B

\* An accept is undone after the original document was replaced in between.
C15_Witness ==
  \E i \in 1..Len(log) : \E j \in 1..Len(log) :
    /\ Replays(j, i)
    /\ log[i].op = "accept"
    /\ \E k \in (i + 1)..(j - 1) : log[k].op = "replaceOriginal"
    /\ log[j].A # PostA(i)
    /\ PostA(j) # log[j].A
\* C16: a diff configuration whose scanLimit is not positive is rejected when
\* the extension is constructed: unifiedMergeView returns no extension for
\* it, and no state with built chunks is created from it.
C16_InvalidConfigRejected ==
  (config.diffConfig # <<>> /\ config.diffConfig[1].scanLimit <= 0) =>
    (extension = <<>> /\ ret.cmd # "EditorState.create")
\* The operations of log[1..k] that are recorded and not yet undone, oldest
\* first, for a run of edits, accepts, rejects and undos.
RECURSIVE NotYetUndone(_)
NotYetUndone(k) ==
  IF k = 0 THEN <<>>
  ELSE LET before == NotYetUndone(k - 1)
       IN  IF log[k].op = "undo" THEN SubSeq(before, 1, Len(before) - 1)
           ELSE Append(before, k)

\* C17: in a run of user edits, accepts, rejects and undos, every undo leaves
\* A, B and the chunks as they were before the most recent operation that was
\* not yet undone; so undoing all of them leaves the initial A, B and chunks.
C17_UndoIsLinear ==
  (\A k \in 1..Len(log) : log[k].op \in {"edit", "accept", "reject", "undo"}) =>
    \A j \in 1..Len(log) :
      log[j].op = "undo" =>
        LET i == NotYetUndone(j - 1)[Len(NotYetUndone(j - 1))]
        IN  /\ PostA(j) = log[i].A
            /\ PostB(j) = log[i].B
            /\ PostChunks(j) = log[i].chunks
\* C18: map gives the effect back with chunkFromB and chunkToB each mapped
\* through the change and every other field as it was, and gives undefined
\* exactly when the mapped chunkFromB is not less than the mapped chunkToB.
C18_MapMovesBRangeOnly ==
  (mapping # <<>> /\ mapping[1].result # RangeError) =>
    LET e  == mapping[1].effect
        r  == mapping[1].result
        ch == mapping[1].change
    IN  /\ r = Undefined <=> ~(mapPos(ch, e.chunkFromB) < mapPos(ch, e.chunkToB))
        /\ r # Undefined =>
             /\ r.chunkFromB = mapPos(ch, e.chunkFromB)
             /\ r.chunkToB = mapPos(ch, e.chunkToB)
             /\ r.type = e.type
             /\ r.chunkFromA = e.chunkFromA
             /\ r.chunkToA = e.chunkToA
             /\ r.currentContent = e.currentContent
             /\ r.changes = e.changes
             /\ e.type = "acceptChunk" => r.originalDoc = e.originalDoc
             /\ e.type = "rejectChunk" => r.originalContent = e.originalContent

\* An effect is mapped through a change that moves its chunk and shortens it.
C18_Witness ==
  /\ mapping # <<>>
  /\ mapping[1].result \notin {RangeError, Undefined}
  /\ mapping[1].result.chunkFromB # mapping[1].effect.chunkFromB
  /\ mapping[1].result.chunkToB - mapping[1].result.chunkFromB
       < mapping[1].effect.chunkToB - mapping[1].effect.chunkFromB

\* The change leaves the B range of the effect alone: it is empty, or it lies
\* before chunkFromB or after chunkToB.
Untouched(e, ch) == IsEmpty(ch) \/ ch.to < e.chunkFromB \/ ch.from > e.chunkToB

\* C19: an effect mapped through a change that leaves its B range alone is
\* still an effect afterwards, whatever the shape of its chunk: where map
\* returns, it does not return undefined.
C19_UntouchedEffectSurvives ==
  (/\ mapping # <<>>
   /\ Untouched(mapping[1].effect, mapping[1].change)
   /\ mapping[1].result # RangeError) =>
    mapping[1].result # Undefined
\* C20: the updateOriginalDoc effect of a transaction, whether it comes from
\* originalDocChangeEffect or from the history as the undo of an accept, holds
\* as doc the result of applying its changes to the A the transaction
\* starts from.
C20_UpdateDocIsChangesApplied ==
  \A i \in 1..Len(log) :
    HasEffect(log[i].tr.effects, "updateOriginalDoc") =>
      LET e == FindEffect(log[i].tr.effects, "updateOriginalDoc")
      IN  e.doc = Apply(e.changes, log[i].A)
\* C21: whatever effects a transaction carries, each original document the
\* reducer gives to Chunk.updateA is the value the originalDoc field has in
\* the state the transaction produces.
C21_ReducerUsesNewOriginal ==
  \A i \in 1..Len(log) :
    \A k \in 1..Len(reducerOriginals(log[i].tr, log[i].A)) :
      reducerOriginals(log[i].tr, log[i].A)[k] = PostA(i)
\* C22: every chunk of the store lies within the documents of the state,
\* 0 <= fromA <= toA <= Len(A) + 1 and 0 <= fromB <= toB <= Len(B) + 1, and the
\* edits acceptChunk and rejectChunk build from it are ranges of the document
\* they are applied to: no call ends in a RangeError.
C22_ChunksIndexRealText ==
  /\ \A k \in 1..Len(chunks) :
       /\ 0 <= chunks[k].fromA /\ chunks[k].fromA <= chunks[k].toA
       /\ chunks[k].toA <= Len(originalDoc) + 1
       /\ 0 <= chunks[k].fromB /\ chunks[k].fromB <= chunks[k].toB
       /\ chunks[k].toB <= Len(doc) + 1
       /\ ~InvalidRange(chunks[k].fromA, Min(Len(originalDoc), chunks[k].toA),
                        Len(originalDoc))
       /\ ~InvalidRange(chunks[k].fromB, Min(Len(doc), chunks[k].toB), Len(doc))
  /\ ret.cmd \in {"acceptChunk", "rejectChunk"} => ret.value # "RangeError"
====
